---- MODULE Spec2Model ----
(***************************************************************************)
(* Model of app/main.py: the FastAPI application entry point of the        *)
(* contacts API.  The module-level statements run once, in order, at       *)
(* import.  An ASGI host may then open lifespan scopes: each runs a new    *)
(* lifespan hook, statement by statement, up to its yield and, on the      *)
(* shutdown signal, leaves the router's context and resumes the hook at    *)
(* its yield.  The host calls the application with requests, which pass    *)
(* the CORS middleware and the route table.  root and health_check are     *)
(* plain `def` handlers: they run in worker threads, and the event loop    *)
(* does other work before the response is made of what they return.        *)
(***************************************************************************)
EXTENDS Naturals, Sequences, FiniteSets

VARIABLES
    pc,         \* position in the module-level code of main.py
    router,     \* contacts.router, imported at line 13
    rootLogger, \* the root logger: whether it has a handler, and its level
    settings,   \* the module global `settings` (line 22)
    app,        \* the module global `app` (line 34)
    hooks,      \* how many lifespan hooks (lines 26-31) are at each position
    log,        \* records emitted through `logger`
    pending,    \* the request taken up whose handler has not run yet
    returned,   \* that request once its handler has returned, with the result
    exchange,   \* the request just answered, with its response
    threads,    \* how many worker threads run a handler for other requests
    healthSeen, \* every answer health_check has given so far
    healthCalls \* how often health_check has run, counted up to MaxHealthCalls

vars ==
    <<pc, router, rootLogger, settings, app, hooks, log, pending, returned,
      exchange, threads, healthSeen, healthCalls>>

Range(s) == {s[i] : i \in 1..Len(s)}

----------------------------------------------------------------------------
(* Values supplied by the collaborators of main.py.                        *)

None == "none"

\* The count of health_check calls is kept up to this number.
MaxHealthCalls == 2

\* Worker threads running handlers for requests other than the one followed.
MaxThreads == 1

\* Lifespan scopes the host opens in one process.
MaxScopes == 2

Listed == "http://localhost:3000"
Unlisted == "http://evil.example"

\* A Settings record as shipped.
DefaultSettings ==
    [app_name |-> "Contacts API", app_version |-> "1.2.3", debug |-> FALSE,
     cors_origins |-> <<Listed>>]

\* What get_settings() can return: the Settings record as shipped, or one
\* with another version, with debug on, or with another list of origins.
SettingsValues ==
    { [DefaultSettings EXCEPT !.app_version = v] : v \in {"1.0.0", "1.2.3"} }
    \cup { [DefaultSettings EXCEPT !.debug = d] : d \in BOOLEAN }
    \cup { [DefaultSettings EXCEPT !.cors_origins = o] :
                o \in {<<>>, <<Listed>>, <<"*">>} }

\* The value of `settings` before line 22 has run, and after it raised.
NoSettings ==
    [app_name |-> None, app_version |-> None, debug |-> FALSE,
     cors_origins |-> <<>>]

\* The levels of the logging module.
NOTSET == 0
INFO == 20
WARNING == 30

\* The root logger of a process that has not configured logging.
UntouchedLogger == [handlers |-> FALSE, level |-> WARNING]

\* The root logger as the importing process may have left it: untouched,
\* or given a handler already and some level.
RootLoggers ==
    { UntouchedLogger,
      [handlers |-> TRUE, level |-> WARNING],
      [handlers |-> TRUE, level |-> INFO],
      [handlers |-> TRUE, level |-> NOTSET] }

\* A path: its segments and whether a slash ends it.  Path(<<>>, TRUE) is
\* "/", Path(<<"api", "contacts">>, FALSE) is "/api/contacts", and
\* Path(<<>>, FALSE) is the empty path a router route may have.
Path(segs, slash) == [segs |-> segs, slash |-> slash]

RootPath == Path(<<>>, TRUE)
HealthPath == Path(<<"health">>, FALSE)
DocsPath == Path(<<"docs">>, FALSE)

\* Path segments that are path parameters of a route.
ParamSegs == {"{contact_id}"}

Route(methods, path, handler, owner) ==
    [methods |-> methods, path |-> path, handler |-> handler, owner |-> owner]

\* Route tables contacts.router may carry (paths relative to the router).
ContactRoutes ==
    << Route({"GET"}, Path(<<"contacts">>, FALSE), "read_contacts", "contacts"),
       Route({"POST"}, Path(<<"contacts">>, FALSE), "create_contact", "contacts"),
       Route({"GET"}, Path(<<"contacts", "{contact_id}">>, FALSE), "read_contact", "contacts"),
       Route({"DELETE"}, Path(<<"contacts", "{contact_id}">>, FALSE), "delete_contact", "contacts") >>

ShadowingRoutes ==
    << Route({"GET"}, Path(<<>>, TRUE), "list_contacts", "contacts"),
       Route({"GET", "POST"}, Path(<<"health">>, FALSE), "contacts_health", "contacts"),
       Route({"GET"}, Path(<<"docs">>, FALSE), "contacts_docs", "contacts") >>

\* What contacts.router may be: its routes, and its lifespan context, which
\* is the default one (nothing of its own), one that runs through, or one
\* that raises when it is entered or when it is left.
PlainRouter == [routes |-> ContactRoutes, lifespan |-> "default"]

RouterChoices ==
    { PlainRouter,
      [routes |-> ShadowingRoutes, lifespan |-> "runs"],
      [routes |-> ContactRoutes, lifespan |-> "raises_at_start"],
      [routes |-> ContactRoutes, lifespan |-> "raises_at_stop"] }

\* What main.py finds when it is imported: any router with logging not
\* yet configured, or the plain router with any root logger.
Environments ==
    { e \in [router : RouterChoices, rootLogger : RootLoggers] :
        e.router = PlainRouter \/ e.rootLogger = UntouchedLogger }

----------------------------------------------------------------------------
(* Requests a host can hand to the application.                            *)

Methods == {"GET", "POST", "OPTIONS", "HEAD"}

Paths ==
    { RootPath, HealthPath, Path(<<"health">>, TRUE), DocsPath,
      Path(<<"contacts">>, FALSE),
      Path(<<"api">>, FALSE), Path(<<"api">>, TRUE),
      Path(<<"api", "contacts">>, FALSE), Path(<<"api", "contacts">>, TRUE),
      Path(<<"api", "contacts", "7">>, FALSE),
      Path(<<"api", "health">>, FALSE) }

\* origin, acrm and acrh are the Origin, Access-Control-Request-Method and
\* Access-Control-Request-Headers headers; cookie tells whether a Cookie
\* header is sent.
Request(method, path, query, origin, acrm, acrh, cookie) ==
    [method |-> method, path |-> path, query |-> query, origin |-> origin,
     acrm |-> acrm, acrh |-> acrh, cookie |-> cookie]

\* Requests without an Origin header.
PlainRequests ==
    { Request(m, p, "", None, None, None, FALSE) : m \in Methods, p \in Paths }
    \cup
    { Request("GET", p, "next=/health", None, None, None, FALSE) :
        p \in {RootPath, HealthPath, Path(<<"health">>, TRUE)} }

\* Requests with an Origin header: plain ones, with or without a cookie,
\* and preflights.
CorsRequests ==
    { Request(m, p, "", o, None, None, c) :
        m \in {"GET", "OPTIONS"},
        p \in {HealthPath, Path(<<"api", "contacts">>, FALSE)},
        o \in {Listed, Unlisted},
        c \in BOOLEAN }
    \cup
    { Request("OPTIONS", p, "", o, h[1], h[2], FALSE) :
        p \in {HealthPath, Path(<<"api", "contacts">>, FALSE)},
        o \in {Listed, Unlisted},
        h \in {<<"GET", None>>, <<"GET", "x-token">>, <<"TRACE", None>>} }

Requests == PlainRequests \cup CorsRequests

----------------------------------------------------------------------------
(* Module-level code, lines 16-86.                                         *)

\* Lines 16-19: logging.basicConfig(level=logging.INFO, ...) configures the
\* root logger only when it has no handler yet.
basicConfig(l) ==
    IF l.handlers THEN l ELSE [handlers |-> TRUE, level |-> INFO]

\* Lines 28, 29, 31: logger.info emits `records` when the effective level
\* of `logger`, which is the root logger's, is INFO or lower.
Info(l, records) ==
    IF l.level <= INFO THEN records ELSE <<>>

\* AfterSettings with the exception of get_settings swallowed.
AfterSettingsCaught(loaded) == "l34"

\* Line 22: `settings = get_settings()`.  An exception raised by
\* get_settings is not caught, so the import stops there.
AfterSettings(loaded) == IF loaded THEN "l34" ELSE "aborted"

\* The documentation routes FastAPI(...) installs for docs_url, redoc_url
\* and openapi_url (lines 59-61), in the order it installs them.
DocsRoutes ==
    << Route({"GET", "HEAD"}, Path(<<"openapi.json">>, FALSE), "openapi", "docs"),
       Route({"GET", "HEAD"}, DocsPath, "swagger_ui_html", "docs"),
       Route({"GET", "HEAD"}, Path(<<"docs", "oauth2-redirect">>, FALSE),
             "swagger_ui_redirect", "docs"),
       Route({"GET", "HEAD"}, Path(<<"redoc">>, FALSE), "redoc_html", "docs") >>

\* A lifespan context: `original` entered first and left last, `nested`
\* entered inside it.
LifespanContext(original, nested) == [original |-> original, nested |-> nested]

NoApp ==
    [title |-> None, version |-> None,
     lifespan |-> LifespanContext(None, None),
     routes |-> <<>>, middleware |-> <<>>]

\* Lines 34-62: the application object, with lifespan=lifespan (line 58).
FastAPI(s) ==
    [title |-> s.app_name, version |-> s.app_version,
     lifespan |-> LifespanContext("lifespan", None),
     routes |-> DocsRoutes, middleware |-> <<>>]

\* CorsConfig with every origin allowed instead of the configured list.
CorsConfigAnyOrigin(s) ==
    [allow_origins |-> <<"*">>,
     allow_credentials |-> TRUE,
     allow_methods |-> {"*"},
     allow_headers |-> {"*"}]

\* Lines 65-71: the options CORSMiddleware is registered with.
CorsConfig(s) ==
    [allow_origins |-> s.cors_origins,
     allow_credentials |-> TRUE,
     allow_methods |-> {"*"},
     allow_headers |-> {"*"}]

\* IncludedRoutes with the prefix left out.
IncludedRoutesNoPrefix(r, prefix) == r

\* Line 74: the routes of `r`, each re-registered with `prefix` put before
\* its path.
IncludedRoutes(r, prefix) ==
    [i \in 1..Len(r) |->
        [r[i] EXCEPT !.path = Path(prefix \o r[i].path.segs, r[i].path.slash)]]

\* Line 74: include_router replaces the lifespan context of the application
\* by the merge of it with the router's.
merge_lifespan_context(original, r) == LifespanContext(original.original, r.lifespan)

\* Whether entering, or leaving, the nested context of `c` raises.
EntryRaises(c) == c.nested = "raises_at_start"
ExitRaises(c) == c.nested = "raises_at_stop"

\* Line 74: prefix="/api".
ApiPrefix == <<"api">>

\* Lines 77-78: the route the decorator of root() registers.
RootRoute == Route({"GET"}, RootPath, "root", "app")

\* HealthRoute registered for POST as well.
HealthRouteAnyMethod ==
    [methods |-> {"GET", "POST", "HEAD"}, path |-> HealthPath,
     handler |-> "health_check", owner |-> "app"]

\* Lines 83-84: the route the decorator of health_check() registers.
HealthRoute == Route({"GET"}, HealthPath, "health_check", "app")

\* Lines 78 and 84: the handlers declared with `def`, not `async def`,
\* which are run in worker threads.
SyncHandlers == {"root", "health_check"}

----------------------------------------------------------------------------
(* The two handlers and the lifespan hook.                                 *)

\* A Location header: a path with a query string, relative or with scheme
\* and host before it.
Location(absolute, path, query) ==
    [absolute |-> absolute, path |-> path, query |-> query]

NoLocation == Location(FALSE, Path(<<>>, FALSE), "")

\* root redirecting to the alternate documentation.
root_to_redoc ==
    [status |-> 307, location |-> Location(FALSE, Path(<<"redoc">>, FALSE), ""),
     body |-> [empty |-> ""]]

\* Lines 78-80: RedirectResponse(url="/docs"), whose default status is 307.
root ==
    [status |-> 307, location |-> Location(FALSE, DocsPath, ""),
     body |-> [empty |-> ""]]

\* health_check reporting the application name as the version.
health_check_name(s) ==
    [status |-> 200, location |-> NoLocation,
     body |-> [status |-> "healthy", version |-> s.app_name]]

\* health_check answering from a per-process call counter.
health_check_counting(s) ==
    [status |-> 200, location |-> NoLocation,
     body |-> [status |-> "healthy",
               version |-> IF healthCalls = 0 THEN s.app_version ELSE "stale"]]

\* Lines 84-86.
health_check(s) ==
    [status |-> 200, location |-> NoLocation,
     body |-> [status |-> "healthy", version |-> s.app_version]]

\* StartRecords with the logging moved after the yield.
StartRecordsLate(s) == <<>>

\* Line 28: the first record logged before the yield.
StartRecords(s) ==
    << [msg |-> "Starting %s v%s", name |-> s.app_name, arg |-> s.app_version] >>

\* Line 29: the second record logged before the yield.
DebugModeRecords(s) ==
    << [msg |-> "Debug mode: %s", name |-> None,
        arg |-> IF s.debug THEN "True" ELSE "False"] >>

\* StopRecords with the shutdown message left out.
StopRecordsNone(s) == <<>>

\* Line 31: the record logged after the yield.
StopRecords(s) ==
    << [msg |-> "Shutting down %s", name |-> s.app_name, arg |-> None] >>

----------------------------------------------------------------------------
(* Answering one request: the route table behind the CORS middleware.      *)

\* A route's path matches a request path segment by segment, a path
\* parameter matching any one segment, and the two end alike.
Matches(route, path) ==
    /\ Len(route.path.segs) = Len(path.segs)
    /\ route.path.slash = path.slash
    /\ \A i \in 1..Len(path.segs) :
          route.path.segs[i] \in ParamSegs \/ route.path.segs[i] = path.segs[i]

Min(S) == CHOOSE x \in S : \A y \in S : x <= y

\* The path with its trailing slash taken off, or put on.
Toggle(path) == Path(path.segs, ~path.slash)

\* What the route table selects: the handler of the first route matching
\* path and method; "405" when routes match the path but none the method;
\* "307" when no route matches the path, the path is not "/", and a route
\* matches the path with its trailing slash toggled; "404" otherwise.
Dispatch(routes, method, path) ==
    LET full == {i \in 1..Len(routes) :
                    Matches(routes[i], path) /\ method \in routes[i].methods}
        partial == {i \in 1..Len(routes) : Matches(routes[i], path)}
        toggled == {i \in 1..Len(routes) : Matches(routes[i], Toggle(path))}
    IN  IF full # {} THEN routes[Min(full)].handler
        ELSE IF partial # {} THEN "405"
        ELSE IF path # RootPath /\ toggled # {} THEN "307"
        ELSE "404"

NoCors ==
    [allow_origin |-> None, allow_credentials |-> None,
     allow_methods |-> {}, allow_headers |-> None]

\* What the handler `h` of SyncHandlers returns; neither takes an argument.
Invoke(h, s) == IF h = "root" THEN root ELSE health_check(s)

\* No handler has run.
NoResult == [status |-> 0, location |-> NoLocation, body |-> [empty |-> ""]]

\* What the endpoint named `handler` answers to `req`; `result` is what the
\* handler returned when it is one of SyncHandlers.
Endpoint(handler, req, result) ==
    CASE handler \in SyncHandlers -> result
      [] handler = "404" ->
            [status |-> 404, location |-> NoLocation,
             body |-> [detail |-> "Not Found"]]
      [] handler = "405" ->
            [status |-> 405, location |-> NoLocation,
             body |-> [detail |-> "Method Not Allowed"]]
      [] handler = "307" ->
            [status |-> 307,
             location |-> Location(TRUE, Toggle(req.path), req.query),
             body |-> [empty |-> ""]]
      [] handler \in {"openapi", "swagger_ui_html", "swagger_ui_redirect", "redoc_html"} ->
            [status |-> 200, location |-> NoLocation, body |-> [document |-> handler]]
      [] OTHER ->
            [status |-> 200, location |-> NoLocation, body |-> [delegated |-> handler]]

\* The response of the route table alone, with the handler that ran.
Routed(a, req, result) ==
    LET h == Dispatch(a.routes, req.method, req.path)
        r == Endpoint(h, req, result)
    IN  [status |-> r.status, location |-> r.location, body |-> r.body,
         handler |-> IF h \in {"404", "405", "307"} THEN None ELSE h,
         \* what the handler was called with
         method |-> req.method, path |-> req.path, query |-> req.query,
         by |-> "router", cors |-> NoCors]

AllMethods == {"DELETE", "GET", "HEAD", "OPTIONS", "PATCH", "POST", "PUT"}

IsAllowedOrigin(c, origin) ==
    "*" \in Range(c.allow_origins) \/ origin \in Range(c.allow_origins)

\* The text of a refused preflight: the failures, in the order checked.
FailureText(okOrigin, okMethod, okHeaders) ==
    CASE ~okOrigin /\ ~okMethod /\ ~okHeaders -> "Disallowed CORS origin, method, headers"
      [] ~okOrigin /\ ~okMethod /\ okHeaders -> "Disallowed CORS origin, method"
      [] ~okOrigin /\ okMethod /\ ~okHeaders -> "Disallowed CORS origin, headers"
      [] ~okOrigin /\ okMethod /\ okHeaders -> "Disallowed CORS origin"
      [] okOrigin /\ ~okMethod /\ ~okHeaders -> "Disallowed CORS method, headers"
      [] okOrigin /\ ~okMethod /\ okHeaders -> "Disallowed CORS method"
      [] okOrigin /\ okMethod /\ ~okHeaders -> "Disallowed CORS headers"
      [] OTHER -> "OK"

\* CORSMiddleware's answer to a preflight request; the route table is not
\* consulted.
Preflight(c, req) ==
    LET methods == IF "*" \in c.allow_methods THEN AllMethods ELSE c.allow_methods
        okOrigin == IsAllowedOrigin(c, req.origin)
        okMethod == req.acrm \in methods
        okHeaders == "*" \in c.allow_headers \/ req.acrh = None
                        \/ req.acrh \in c.allow_headers
        ok == okOrigin /\ okMethod /\ okHeaders
    IN  [status |-> IF ok THEN 200 ELSE 400,
         location |-> NoLocation,
         body |-> [text |-> FailureText(okOrigin, okMethod, okHeaders)],
         handler |-> None,
         method |-> req.method, path |-> req.path, query |-> req.query,
         by |-> "cors",
         cors |-> [allow_origin |-> IF okOrigin THEN req.origin ELSE None,
                   allow_credentials |->
                        IF c.allow_credentials THEN "true" ELSE None,
                   allow_methods |-> methods,
                   allow_headers |->
                        IF "*" \in c.allow_headers THEN req.acrh ELSE None]]

\* The headers CORSMiddleware adds to the response of a request that
\* carries an Origin header and is not a preflight.
SimpleHeaders(c, req) ==
    LET all == "*" \in Range(c.allow_origins)
        explicit == \/ all /\ req.cookie
                    \/ ~all /\ IsAllowedOrigin(c, req.origin)
    IN  [allow_origin |-> IF explicit THEN req.origin
                          ELSE IF all THEN "*" ELSE None,
         allow_credentials |-> IF c.allow_credentials THEN "true" ELSE None,
         allow_methods |-> {},
         allow_headers |-> None]

IsPreflightRequest(req) ==
    req.origin # None /\ req.method = "OPTIONS" /\ req.acrm # None

\* The application's response to one request, `result` being what its
\* handler returned.
Call(a, req, result) ==
    IF a.middleware = <<>> \/ req.origin = None
    THEN Routed(a, req, result)
    ELSE IF IsPreflightRequest(req)
         THEN Preflight(a.middleware[1], req)
         ELSE [Routed(a, req, result) EXCEPT !.cors = SimpleHeaders(a.middleware[1], req)]

\* Whether answering `req` runs one of the handlers of SyncHandlers, in a
\* worker thread.
RunsInThread(a, req) ==
    /\ ~(a.middleware # <<>> /\ IsPreflightRequest(req))
    /\ Dispatch(a.routes, req.method, req.path) \in SyncHandlers

----------------------------------------------------------------------------
(* The state machine.                                                      *)

\* The positions of a hook: line 28 has run (l29); suspended at the yield
\* of line 30; suspended there with the shutdown signal delivered and the
\* router's context being left (signalled); resumed at the yield with line
\* 31 to run (l31); returned after line 31 (finished); ended by an
\* exception thrown in at the yield (raised).
NoHooks ==
    [l29 |-> 0, suspended |-> 0, signalled |-> 0, l31 |-> 0, finished |-> 0,
     raised |-> 0]

\* The lifespan scopes opened so far.
Started ==
    hooks.l29 + hooks.suspended + hooks.signalled + hooks.l31 + hooks.finished
      + hooks.raised

Init ==
    /\ pc = "l16"
    /\ \E e \in Environments : router = e.router /\ rootLogger = e.rootLogger
    /\ settings = NoSettings
    /\ app = NoApp
    /\ hooks = NoHooks
    /\ log = <<>>
    /\ pending = {}
    /\ returned = {}
    /\ exchange = {}
    /\ threads = 0
    /\ healthSeen = {}
    /\ healthCalls = 0

\* Lines 16-20.
ConfigureLogging ==
    /\ pc = "l16"
    /\ rootLogger' = basicConfig(rootLogger)
    /\ pc' = "l22"
    /\ UNCHANGED <<router, settings, app, hooks, log, pending, returned, exchange, threads, healthSeen, healthCalls>>

\* Line 22, get_settings() returning a Settings value.
LoadSettings ==
    /\ pc = "l22"
    /\ \E s \in SettingsValues : settings' = s
    /\ pc' = AfterSettings(TRUE)
    /\ UNCHANGED <<router, rootLogger, app, hooks, log, pending, returned, exchange, threads, healthSeen, healthCalls>>

\* Line 22, get_settings() raising.
LoadSettingsFails ==
    /\ pc = "l22"
    /\ pc' = AfterSettings(FALSE)
    /\ UNCHANGED <<router, rootLogger, settings, app, hooks, log, pending, returned, exchange, threads, healthSeen, healthCalls>>

\* Lines 34-62.
CreateApp ==
    /\ pc = "l34"
    /\ app' = FastAPI(settings)
    /\ pc' = "l65"
    /\ UNCHANGED <<router, rootLogger, settings, hooks, log, pending, returned, exchange, threads, healthSeen, healthCalls>>

\* Lines 65-71.
AddMiddleware ==
    /\ pc = "l65"
    /\ app' = [app EXCEPT !.middleware = <<CorsConfig(settings)>> \o @]
    /\ pc' = "l74"
    /\ UNCHANGED <<router, rootLogger, settings, hooks, log, pending, returned, exchange, threads, healthSeen, healthCalls>>

\* Line 74: the router's routes are added under the prefix and its
\* lifespan context is merged into the application's.
IncludeRouter ==
    /\ pc = "l74"
    /\ app' = [app EXCEPT !.routes = @ \o IncludedRoutes(router.routes, ApiPrefix),
                          !.lifespan = merge_lifespan_context(@, router)]
    /\ pc' = "l77"
    /\ UNCHANGED <<router, rootLogger, settings, hooks, log, pending, returned, exchange, threads, healthSeen, healthCalls>>

\* Lines 77-80, the definition of root().
RegisterRoot ==
    /\ pc = "l77"
    /\ app' = [app EXCEPT !.routes = Append(@, RootRoute)]
    /\ pc' = "l83"
    /\ UNCHANGED <<router, rootLogger, settings, hooks, log, pending, returned, exchange, threads, healthSeen, healthCalls>>

\* Lines 83-86, the definition of health_check().
RegisterHealth ==
    /\ pc = "l83"
    /\ app' = [app EXCEPT !.routes = Append(@, HealthRoute)]
    /\ pc' = "imported"
    /\ UNCHANGED <<router, rootLogger, settings, hooks, log, pending, returned, exchange, threads, healthSeen, healthCalls>>

\* Lines 26-28: the host opens a lifespan scope, which makes a new hook;
\* the hook runs up to line 28 and logs the first start record.
LifespanStart ==
    /\ pc = "imported"
    /\ app.lifespan.original = "lifespan"
    /\ Started < MaxScopes
    /\ log' = log \o Info(rootLogger, StartRecords(settings))
    /\ hooks' = [hooks EXCEPT !.l29 = @ + 1]
    /\ UNCHANGED <<pc, router, rootLogger, settings, app, pending, returned, exchange, threads, healthSeen, healthCalls>>

\* Lines 29-30: a hook logs the second start record and suspends at its
\* yield; the router's context is entered next.
LifespanYield ==
    /\ hooks.l29 > 0
    /\ log' = log \o Info(rootLogger, DebugModeRecords(settings))
    /\ hooks' = [hooks EXCEPT !.l29 = @ - 1, !.suspended = @ + 1]
    /\ UNCHANGED <<pc, router, rootLogger, settings, app, pending, returned, exchange, threads, healthSeen, healthCalls>>

\* Line 30: the router's context raises when it is entered.  The yield is
\* not inside a try, so the exception, thrown into the suspended hook at
\* its yield, ends it.
StartupFails ==
    /\ hooks.suspended > 0
    /\ EntryRaises(app.lifespan)
    /\ hooks' = [hooks EXCEPT !.suspended = @ - 1, !.raised = @ + 1]
    /\ UNCHANGED <<pc, router, rootLogger, settings, app, log, pending, returned, exchange, threads, healthSeen, healthCalls>>

\* The answers of health_check seen once handler `h` has returned `r`.
Seen(h, r) ==
    IF h = "health_check"
    THEN healthSeen \cup {[status |-> r.status, body |-> r.body]}
    ELSE healthSeen

\* The count of health_check calls once handler `h` has returned.
Calls(h) ==
    IF h = "health_check" /\ healthCalls < MaxHealthCalls
    THEN healthCalls + 1
    ELSE healthCalls

\* The host calls `app` with a request: lines 65-76 of the set-up decide
\* who answers.  A request for root or health_check waits for a worker
\* thread; any other is answered at once.  main.py does not tie this to
\* the lifespan hook.
Serve ==
    /\ pc = "imported"
    /\ pending = {}
    /\ returned = {}
    /\ exchange = {}
    /\ \E req \in Requests :
          IF RunsInThread(app, req)
          THEN pending' = {req} /\ exchange' = exchange
          ELSE /\ pending' = pending
               /\ exchange' = {[req |-> req, resp |-> Call(app, req, NoResult)]}
    /\ UNCHANGED <<pc, router, rootLogger, settings, app, hooks, log, returned, threads, healthSeen, healthCalls>>

\* The handler the route table selects for `req`.
HandlerOf(req) == Dispatch(app.routes, req.method, req.path)

\* Run with a health_check that overwrites the version it reports.
RunMutating ==
    /\ pending # {}
    /\ \E req \in pending :
          /\ returned' = {[req |-> req, result |-> Invoke(HandlerOf(req), settings)]}
          /\ settings' = IF HandlerOf(req) = "health_check"
                         THEN [settings EXCEPT !.app_version = "checked"]
                         ELSE settings
    /\ pending' = {}
    /\ UNCHANGED <<pc, router, rootLogger, app, hooks, log, exchange, threads, healthSeen, healthCalls>>

\* Lines 78-80 or 84-86: the handler of the pending request runs in its
\* worker thread and returns.  The request waits for the event loop to
\* resume it.
Run ==
    /\ pending # {}
    /\ \E req \in pending :
          LET h == HandlerOf(req)
              result == Invoke(h, settings) IN
          /\ returned' = {[req |-> req, result |-> result]}
          /\ healthSeen' = Seen(h, result)
          /\ healthCalls' = Calls(h)
    /\ pending' = {}
    /\ UNCHANGED <<pc, router, rootLogger, settings, app, hooks, log, exchange, threads>>

\* The event loop resumes the request: the response is made of what the
\* handler returned, and passes the CORS middleware.
Respond ==
    /\ returned # {}
    /\ \E r \in returned :
          exchange' = {[req |-> r.req, resp |-> Call(app, r.req, r.result)]}
    /\ returned' = {}
    /\ UNCHANGED <<pc, router, rootLogger, settings, app, hooks, log, pending, threads, healthSeen, healthCalls>>

\* The response has been sent and the call of `app` returns, which ends
\* the exchange.
Finish ==
    /\ exchange # {}
    /\ exchange' = {}
    /\ UNCHANGED <<pc, router, rootLogger, settings, app, hooks, log, pending, returned, threads, healthSeen, healthCalls>>

\* Another request for root or health_check is taken up while others are
\* in progress: its handler is handed to a worker thread.
Submit ==
    /\ pc = "imported"
    /\ threads < MaxThreads
    /\ threads' = threads + 1
    /\ UNCHANGED <<pc, router, rootLogger, settings, app, hooks, log, pending, returned, exchange, healthSeen, healthCalls>>

\* Lines 78-80 or 84-86: the handler running in a worker thread, root or
\* health_check, returns.
Return ==
    /\ threads > 0
    /\ threads' = threads - 1
    /\ \E h \in SyncHandlers :
          /\ healthSeen' = Seen(h, Invoke(h, settings))
          /\ healthCalls' = Calls(h)
    /\ UNCHANGED <<pc, router, rootLogger, settings, app, hooks, log, pending, returned, exchange>>

\* The host delivers the shutdown signal to a hook suspended at its yield
\* after a startup that completed; the router's context is left first.
ShutdownSignal ==
    /\ hooks.suspended > 0
    /\ ~EntryRaises(app.lifespan)
    /\ hooks' = [hooks EXCEPT !.suspended = @ - 1, !.signalled = @ + 1]
    /\ UNCHANGED <<pc, router, rootLogger, settings, app, log, pending, returned, exchange, threads, healthSeen, healthCalls>>

\* Line 30: the router's context has been left without an exception and
\* the hook is resumed at its yield.
LifespanResume ==
    /\ hooks.signalled > 0
    /\ ~ExitRaises(app.lifespan)
    /\ hooks' = [hooks EXCEPT !.signalled = @ - 1, !.l31 = @ + 1]
    /\ UNCHANGED <<pc, router, rootLogger, settings, app, log, pending, returned, exchange, threads, healthSeen, healthCalls>>

\* Line 30: the router's context raises when it is left.  The exception is
\* thrown into the hook at its yield and ends it; line 31 does not run.
ShutdownFails ==
    /\ hooks.signalled > 0
    /\ ExitRaises(app.lifespan)
    /\ hooks' = [hooks EXCEPT !.signalled = @ - 1, !.raised = @ + 1]
    /\ UNCHANGED <<pc, router, rootLogger, settings, app, log, pending, returned, exchange, threads, healthSeen, healthCalls>>

\* Line 31: a resumed hook logs the shutdown record and returns.
LifespanStop ==
    /\ hooks.l31 > 0
    /\ log' = log \o Info(rootLogger, StopRecords(settings))
    /\ hooks' = [hooks EXCEPT !.l31 = @ - 1, !.finished = @ + 1]
    /\ UNCHANGED <<pc, router, rootLogger, settings, app, pending, returned, exchange, threads, healthSeen, healthCalls>>

Next ==
    \/ ConfigureLogging
    \/ LoadSettings
    \/ LoadSettingsFails
    \/ CreateApp
    \/ AddMiddleware
    \/ IncludeRouter
    \/ RegisterRoot
    \/ RegisterHealth
    \/ LifespanStart
    \/ LifespanYield
    \/ StartupFails
    \/ Serve
    \/ Run
    \/ Respond
    \/ Finish
    \/ Submit
    \/ Return
    \/ ShutdownSignal
    \/ LifespanResume
    \/ ShutdownFails
    \/ LifespanStop

Spec == Init /\ [][Next]_vars

\* The event loop runs a resumed hook to its end.  Nothing is assumed of
\* the router's context: leaving it may take for ever.
FairSpec == Spec /\ WF_vars(LifespanStop)

----------------------------------------------------------------------------
(* Properties.                                                             *)

IsGet(x, path) == x.req.method = "GET" /\ x.req.path = path

IsPreflight(x) == IsPreflightRequest(x.req)

\* C1: every GET /health is answered 200 with exactly the two-key body
\* {status: "healthy", version: settings.app_version}, whatever was served
\* before or is served meanwhile.
C1_HealthBody ==
    \A x \in exchange :
        IsGet(x, HealthPath) =>
            /\ x.resp.status = 200
            /\ DOMAIN x.resp.body = {"status", "version"}
            /\ x.resp.body.status = "healthy"
            /\ x.resp.body.version = settings.app_version

C1_Witness ==
    \E x \in exchange :
        /\ IsGet(x, HealthPath)
        /\ settings.app_version = "1.2.3"
        /\ healthCalls = MaxHealthCalls
        /\ threads > 0
        /\ x.resp.body.version = "1.2.3"

\* C2: every GET / is answered with a 307 or 308 redirect to /docs,
\* whatever its query string.
C2_RootRedirect ==
    \A x \in exchange :
        IsGet(x, RootPath) =>
            /\ x.resp.status \in {307, 308}
            /\ x.resp.location = Location(FALSE, DocsPath, "")

C2_Witness ==
    \E x \in exchange :
        /\ IsGet(x, RootPath)
        /\ x.req.query # ""
        /\ x.resp.status = 307

Origins == Range(settings.cors_origins)

AllowsOrigin(x) == x.resp.cors.allow_origin \in {x.req.origin, "*"}

\* C3 as stated: a request with an Origin header is allowed by the CORS
\* headers of its response exactly when its origin is in
\* settings.cors_origins.
C3_ListedOnly ==
    \A x \in exchange :
        x.req.origin # None => (AllowsOrigin(x) <=> x.req.origin \in Origins)

\* C3 as amended: an origin in the list, or any origin when the list holds
\* the wildcard "*", gets the permissive headers (origin allowed,
\* credentials allowed, and on a preflight the seven standard methods and
\* the requested headers allowed, the preflight accepted when it asks for
\* one of these methods); any other origin gets no
\* Access-Control-Allow-Origin and its preflight is refused.
C3_ListedOrWildcard ==
    \A x \in exchange :
        x.req.origin # None =>
            IF x.req.origin \in Origins \/ "*" \in Origins
            THEN /\ AllowsOrigin(x)
                 /\ x.resp.cors.allow_credentials = "true"
                 /\ IsPreflight(x) =>
                        /\ x.resp.status = 200 <=> x.req.acrm \in AllMethods
                        /\ x.resp.cors.allow_origin = x.req.origin
                        /\ x.resp.cors.allow_methods = AllMethods
                        /\ x.resp.cors.allow_headers = x.req.acrh
            ELSE /\ x.resp.cors.allow_origin = None
                 /\ IsPreflight(x) => x.resp.status = 400

C3_Witness ==
    \E x \in exchange :
        /\ settings.cors_origins = <<Listed>>
        /\ x.req.origin = Listed
        /\ IsPreflight(x)
        /\ x.req.acrh = "x-token"
        /\ x.resp.status = 200
        /\ x.resp.cors.allow_origin = Listed

ContactsHandlers == {router.routes[i].handler : i \in 1..Len(router.routes)}

UnderApi(path) == Len(path.segs) >= 1 /\ path.segs[1] = "api"

\* The path that follows /api in `path`.
AfterApi(path) == Path(Tail(path.segs), path.slash)

\* C4: a request runs a handler of the contacts router only when its path
\* is /api<p> and the router selects that handler for <p>, with method and
\* query as sent; and whenever the router selects a handler for <p>, a
\* request to /api<p> runs it.
C4_RouterUnderApi ==
    \A x \in exchange :
        /\ x.resp.handler \in ContactsHandlers =>
              /\ UnderApi(x.req.path)
              /\ x.resp.handler = Dispatch(router.routes, x.req.method, AfterApi(x.req.path))
              /\ x.resp.method = x.req.method
              /\ x.resp.query = x.req.query
        /\ (/\ UnderApi(x.req.path)
            /\ Dispatch(router.routes, x.req.method, AfterApi(x.req.path)) \in ContactsHandlers)
              => x.resp.handler = Dispatch(router.routes, x.req.method, AfterApi(x.req.path))

C4_Witness ==
    \E x \in exchange :
        /\ x.req.path = Path(<<"api", "health">>, FALSE)
        /\ x.req.method = "POST"
        /\ x.resp.handler = "contacts_health"

\* C5 as stated: every request to /health with a method other than GET is
\* rejected by the route table and does not run health_check.
C5_RejectedByRouting ==
    \A x \in exchange :
        (x.req.path = HealthPath /\ x.req.method # "GET") =>
            /\ x.resp.by = "router"
            /\ x.resp.status = 405
            /\ x.resp.handler # "health_check"

\* C5 as amended: health_check runs for GET /health only; a request to
\* /health with another method runs no handler, and is rejected with 405
\* by the route table unless it is a CORS preflight, which the middleware
\* answers itself.
C5_GetOnly ==
    /\ \A r \in pending \cup {y.req : y \in returned} :
          HandlerOf(r) = "health_check" => r.method = "GET" /\ r.path = HealthPath
    /\ \A x \in exchange :
          /\ x.resp.handler = "health_check" => IsGet(x, HealthPath)
          /\ (x.req.path = HealthPath /\ x.req.method # "GET") =>
                /\ x.resp.handler = None
                /\ IF IsPreflight(x)
                   THEN x.resp.by = "cors" /\ x.resp.status \in {200, 400}
                   ELSE x.resp.by = "router" /\ x.resp.status = 405

C5_Witness ==
    \E x \in exchange :
        /\ x.req.path = HealthPath
        /\ x.req.method = "POST"
        /\ x.resp.status = 405

\* C6: once get_settings has failed there is no application object, no
\* request is taken up or answered, no lifespan hook has run and nothing
\* more happens.
C6_NoServerAfterFailure ==
    (pc \notin {"l16", "l22"} /\ settings = NoSettings) =>
        /\ pc = "aborted"
        /\ app = NoApp
        /\ hooks = NoHooks
        /\ log = <<>>
        /\ pending = {}
        /\ returned = {}
        /\ exchange = {}
        /\ threads = 0
        /\ healthSeen = {}
        /\ ~ENABLED Next

C6_Witness == pc = "aborted" /\ settings = NoSettings

\* How many of the first n records of the log carry the message `msg`.
Count(msg, n) == Cardinality({i \in 1..n : log[i].msg = msg})

\* The records of lines 28, 29 and 31.
StartingRecord ==
    [msg |-> "Starting %s v%s", name |-> settings.app_name,
     arg |-> settings.app_version]

DebugRecord ==
    [msg |-> "Debug mode: %s", name |-> None,
     arg |-> IF settings.debug THEN "True" ELSE "False"]

ShutdownRecord ==
    [msg |-> "Shutting down %s", name |-> settings.app_name, arg |-> None]

StartLogged ==
    /\ Len(log) >= 2
    /\ log[1] = StartingRecord
    /\ log[2] = DebugRecord

StopCount == Count("Shutting down %s", Len(log))

StopLogged == StopCount > 0

InFlight ==
    pending # {} \/ returned # {} \/ exchange # {} \/ threads > 0

\* C7 as stated: the two start records are in the log, in order, once a
\* hook has suspended; a request is in progress only while a hook is
\* suspended, with the start records logged and the shutdown record not.
C7_BracketsServing ==
    /\ hooks.suspended + hooks.signalled + hooks.l31 + hooks.finished > 0
          => StartLogged
    /\ InFlight =>
          /\ hooks.suspended + hooks.signalled + hooks.l31 > 0
          /\ StartLogged
          /\ ~StopLogged

\* C7 as amended: when the logger's level admits INFO, every hook logs its
\* name/version record, then its debug record, before it suspends, and its
\* shutdown record only after it has been resumed at the yield: the log
\* holds one name/version record per scope opened, one debug record per
\* hook that has passed line 29 and one shutdown record per hook that has
\* returned; up to any place in the log there are no more debug records
\* than name/version records and no more shutdown records than debug
\* records.  Records of different hooks may interleave.  At a higher
\* level nothing is logged.  Requests are not tied to the hooks.
C7_BracketsLog ==
    IF rootLogger.level <= INFO
    THEN /\ Count("Starting %s v%s", Len(log)) = Started
         /\ Count("Debug mode: %s", Len(log)) = Started - hooks.l29
         /\ StopCount = hooks.finished
         /\ \A i \in 1..Len(log) :
               /\ log[i] \in {StartingRecord, DebugRecord, ShutdownRecord}
               /\ Count("Debug mode: %s", i) <= Count("Starting %s v%s", i)
               /\ Count("Shutting down %s", i) <= Count("Debug mode: %s", i)
    ELSE log = <<>>

C7_Witness ==
    /\ hooks.suspended = 2
    /\ Len(log) = 4
    /\ log[2] = StartingRecord
    /\ \E x \in exchange : IsGet(x, HealthPath)

\* C8: all answers health_check has given in one process are equal.
C8_HealthIdempotent == Cardinality(healthSeen) <= 1

C8_Witness ==
    /\ healthCalls >= 2
    /\ threads > 0
    /\ \E x \in exchange : x.req.path = Path(<<"api", "contacts">>, FALSE)

\* C9: once loaded, settings keeps the loaded value in every step; after
\* the import the application object is not changed; a step that takes up
\* or answers a request, or in which a handler returns, changes neither
\* the log nor the lifespan hooks; the lifespan steps change the log and
\* the hooks only.
C9_SettingsImmutable ==
    [][ /\ pc \notin {"l16", "l22"} => settings' = settings
        /\ pc \in {"imported", "aborted"} => UNCHANGED <<pc, app, router, rootLogger>>
        /\ (\/ pending' # pending
            \/ returned' # returned
            \/ exchange' # exchange
            \/ threads' # threads)
              => UNCHANGED <<log, hooks>>
        /\ (log' # log \/ hooks' # hooks)
              => UNCHANGED <<pending, returned, exchange, threads, healthSeen>> ]_vars

C9_Witness ==
    /\ hooks.finished >= 1
    /\ healthCalls >= 1
    /\ \E r \in returned : r.result.body.version = settings.app_version
    /\ settings \in SettingsValues

\* The hooks that have ended after the shutdown signal.
EndedAfterSignal ==
    IF EntryRaises(app.lifespan) THEN 0 ELSE hooks.finished + hooks.raised

====
